---- MODULE Spec2Model ----
(***************************************************************************)
(* Cluster-context identity and caching subsystem of Headlamp.             *)
(*                                                                         *)
(*   - MakeDNSFriendly   (backend, Go)   canonical context name            *)
(*   - makeDNSFriendly   (frontend, TS)  client mirror of the above        *)
(*   - contextStore      (backend, Go)   canonical name -> context, on a   *)
(*                                       TTL cache                         *)
(*                                                                         *)
(* A string is a sequence of characters; a character is a one-character    *)
(* TLA+ string ("a", "-", " ") or, for a character outside ASCII, the name *)
(* of its code point ("U+212A"; the backslash is written "U+005C").        *)
(***************************************************************************)
EXTENDS Integers, Sequences, FiniteSets, TLC

\* ------------------------------------------------------------------------
\* Characters
\* ------------------------------------------------------------------------
LowerSeq ==
  << "a","b","c","d","e","f","g","h","i","j","k","l","m",
     "n","o","p","q","r","s","t","u","v","w","x","y","z" >>

UpperSeq ==
  << "A","B","C","D","E","F","G","H","I","J","K","L","M",
     "N","O","P","Q","R","S","T","U","V","W","X","Y","Z" >>

Lower == { LowerSeq[i] : i \in 1..26 }

Upper == { UpperSeq[i] : i \in 1..26 }

Digit == { "0","1","2","3","4","5","6","7","8","9" }

\* The printable ASCII characters that are neither letters nor digits.
AsciiPunct ==
  { " ", "!", "#", "$", "%", "&", "U+0027", "(", ")", "*", "+", ",", "-", ".",
    "/", ":", ";", "<", "=", ">", "?", "@", "[", "U+005C", "]", "^", "_", "U+0060",
    "{", "|", "}", "~" }

Ascii == Lower \cup Upper \cup Digit \cup AsciiPunct

\* unicode.ToLower on A..Z (what the switch in strings.Map reaches).
ToLowerASCII(c) == LowerSeq[CHOOSE i \in 1..26 : UpperSeq[i] = c]

\* isAlphanumeric (Go): a letter of either case or a digit.
isAlphanumeric(r) == r \in Lower \/ r \in Upper \/ r \in Digit

\* /[a-z0-9]/ (TS boundary tests).
JsAlnum(c) == c \in Lower \/ c \in Digit

\* [a-z0-9-], the class of the GKE pattern and of the DNS label body.
LabelChar(c) == c \in Lower \/ c \in Digit \/ c = "-"

\* ------------------------------------------------------------------------
\* String helpers (strings package / String.prototype)
\* ------------------------------------------------------------------------
\* s[:n] in Go for n <= len(s); s.slice(0, n) in TS (which clamps).
Prefix(s, n) == IF n >= Len(s) THEN s ELSE SubSeq(s, 1, n)

\* s[i..] with every old replaced by new, computed by halves: the characters
\* are rewritten one by one, so the halves are independent.
RECURSIVE ReplaceFrom(_, _, _, _)
ReplaceFrom(s, i, old, new) ==
  IF i > Len(s) THEN << >>
  ELSE IF i = Len(s) THEN (IF s[i] = old THEN new ELSE << s[i] >>)
  ELSE LET mid == (i + Len(s)) \div 2
       IN  ReplaceFrom(SubSeq(s, 1, mid), i, old, new) \o ReplaceFrom(s, mid + 1, old, new)

\* strings.ReplaceAll(s, old, new) / s.split(old).join(new), old one character.
ReplaceAll(s, old, new) == ReplaceFrom(s, 1, old, new)

\* strings.Count(s, c) for a one-character c.
Count(s, c) == Cardinality({ i \in 1..Len(s) : s[i] = c })

HasPrefix(s, p) == Len(s) >= Len(p) /\ SubSeq(s, 1, Len(p)) = p

\* strings.Split(s, sep) / s.split(sep), sep one character: always >= 1 part.
\* Part k lies between the (k-1)-th and the k-th separator.
Split(s, sep) ==
  LET seps   == { i \in 1..Len(s) : s[i] = sep }
      n      == Cardinality(seps)
      pos(k) == IF k = 0 THEN 0
                ELSE IF k > n THEN Len(s) + 1
                ELSE CHOOSE p \in seps : Cardinality({ q \in seps : q <= p }) = k
  IN  [k \in 1..(n + 1) |-> SubSeq(s, pos(k - 1) + 1, pos(k) - 1)]

RECURSIVE JoinFrom(_, _, _)
JoinFrom(parts, i, sep) ==
  IF i > Len(parts) THEN << >>
  ELSE IF i = Len(parts) THEN parts[i]
  ELSE LET mid == (i + Len(parts)) \div 2
       IN  JoinFrom(SubSeq(parts, 1, mid), i, sep) \o sep \o JoinFrom(parts, mid + 1, sep)

\* strings.Join(parts, sep) / parts.join(sep).
Join(parts, sep) == JoinFrom(parts, 1, sep)

\* strings.Contains(s, "--").
ContainsDoubleHyphen(s) ==
  \E i \in 1..(Len(s) - 1) : s[i] = "-" /\ s[i + 1] = "-"

\* s[i..] with the pairs of hyphens, taken left to right without overlap,
\* replaced by one hyphen each. A pair never spans a cut between two
\* characters that are not both hyphens, so the string is computed by halves
\* around the cut nearest its middle; a string of k hyphens gives
\* ceil(k / 2) of them.
RECURSIVE ReplaceDoubleFrom(_, _)
ReplaceDoubleFrom(s, i) ==
  IF i > Len(s) THEN << >>
  ELSE LET cuts == { j \in i..(Len(s) - 1) : ~(s[j] = "-" /\ s[j + 1] = "-") }
           far(j) == IF 2 * j >= i + Len(s) THEN 2 * j - (i + Len(s)) ELSE (i + Len(s)) - 2 * j
       IN  IF cuts = {}
           THEN IF s[i] = "-" THEN [k \in 1..((Len(s) - i + 2) \div 2) |-> "-"]
                ELSE << s[i] >>
           ELSE LET mid == CHOOSE j \in cuts : \A k \in cuts : far(j) <= far(k)
                IN  ReplaceDoubleFrom(SubSeq(s, 1, mid), i) \o ReplaceDoubleFrom(s, mid + 1)

\* One pass of strings.ReplaceAll(s, "--", "-"): non-overlapping, left to right.
ReplaceDoubleHyphen(s) == ReplaceDoubleFrom(s, 1)

RECURSIVE RemoveConsecutiveHyphens(_)
\* for strings.Contains(result, "--") { result = ReplaceAll(result, "--", "-") }
RemoveConsecutiveHyphens(s) ==
  IF ContainsDoubleHyphen(s) THEN RemoveConsecutiveHyphens(ReplaceDoubleHyphen(s))
  ELSE s

RECURSIVE JsCollapseFrom(_, _)
JsCollapseFrom(s, i) ==
  IF i > Len(s) THEN << >>
  ELSE IF i = Len(s)
  THEN (IF s[i] = "-" /\ i > 1 /\ s[i - 1] = "-" THEN << >> ELSE << s[i] >>)
  ELSE LET mid == (i + Len(s)) \div 2
       IN  JsCollapseFrom(SubSeq(s, 1, mid), i) \o JsCollapseFrom(s, mid + 1)

\* result.replace(/-+/g, -): each maximal run of hyphens becomes one.
JsCollapseHyphens(s) == JsCollapseFrom(s, 1)

\* strings.Trim(s, "-") / s.replace(/^-+|-+$/g, empty).
TrimHyphens(s) ==
  LET keep == { i \in 1..Len(s) : s[i] # "-" }
  IN  IF keep = {} THEN << >>
      ELSE LET lo == CHOOSE i \in keep : \A j \in keep : i <= j
               hi == CHOOSE i \in keep : \A j \in keep : j <= i
           IN  SubSeq(s, lo, hi)

\* Go integer division truncates toward zero.
GoDiv(a, b) == IF a >= 0 THEN a \div b ELSE -((-a) \div b)

\* Math.floor(a / b) for b > 0.
JsFloorDiv(a, b) == a \div b

\* ------------------------------------------------------------------------
\* Constants of the canonicalizer
\* ------------------------------------------------------------------------
\* const MAX_DNS_LABEL_LENGTH = 63 (frontend).
MAX_DNS_LABEL_LENGTH == 63

\* kubeconfig.MaxDNSLabelLength (backend), the DNS label limit.
MaxDNSLabelLength == 63

UnnamedContext ==
  << "u","n","n","a","m","e","d","-","c","o","n","t","e","x","t" >>

GkePrefix == << "g","k","e","_" >>

\* The replacement table with the space mapped to "@", itself a key of the
\* table: the result then depends on which of the two entries is applied first.
Replacements_SpaceToAt ==
  << << "/",  << "-" >> >>,
     << " ",  << "@" >> >>,
     << ":",  << "-" >> >>,
     << "=",  << "-","e","q","-" >> >>,
     << "+",  << "-","p","l","u","s","-" >> >>,
     << ",",  << "-" >> >>,
     << "@",  << "-","a","t","-" >> >>,
     << "U+005C", << "-" >> >>,
     << "(",  << "-" >> >>,
     << ")",  << "-" >> >>,
     << "*",  << "-","s","t","a","r","-" >> >>,
     << ".",  << "-" >> >> >>

\* The replacement table, in the order the source writes it.
Replacements ==
  << << "/",  << "-" >> >>,
     << " ",  << "_","_" >> >>,
     << ":",  << "-" >> >>,
     << "=",  << "-","e","q","-" >> >>,
     << "+",  << "-","p","l","u","s","-" >> >>,
     << ",",  << "-" >> >>,
     << "@",  << "-","a","t","-" >> >>,
     << "U+005C", << "-" >> >>,
     << "(",  << "-" >> >>,
     << ")",  << "-" >> >>,
     << "*",  << "-","s","t","a","r","-" >> >>,
     << ".",  << "-" >> >> >>

NumReplacements == Len(Replacements)

\* Iteration orders of the replacement table. A Go map is ranged over in an
\* unspecified order; a JS object with string keys in insertion order.
SourceOrder == [i \in 1..NumReplacements |-> i]

ReverseOrder == [i \in 1..NumReplacements |-> NumReplacements + 1 - i]

RotatedOrder == [i \in 1..NumReplacements |-> ((i + 4) % NumReplacements) + 1]

MapOrders == { SourceOrder, ReverseOrder, RotatedOrder }

RECURSIVE ApplyFrom(_, _, _)
\* The entries order[i..] applied to s one after the other: the first half
\* of them, then the second half on the string the first half left.
ApplyFrom(s, order, i) ==
  IF i > Len(order) THEN s
  ELSE IF i = Len(order)
  THEN ReplaceAll(s, Replacements[order[i]][1], Replacements[order[i]][2])
  ELSE LET mid  == (i + Len(order)) \div 2
           half == ApplyFrom(s, SubSeq(order, 1, mid), i)
       IN  IF Len(half) >= 0 THEN ApplyFrom(half, order, mid + 1) ELSE half

\* for old, new := range replacements { result = ReplaceAll(result, old, new) }
ApplyReplacements(s, order) == ApplyFrom(s, order, 1)

\* GkeRegexMatch without the character class: any four segments match.
GkeRegexMatch_AnySegments(name) == Len(Split(name, "_")) >= 4

\* ^gke_[a-z0-9-]+_[a-z0-9-]+_[a-z0-9-]+$ : the class excludes "_", so a match
\* is exactly "gke", then three non-empty segments of the class.
GkeRegexMatch(name) ==
  LET segs == Split(name, "_")
  IN  /\ Len(segs) = 4
      /\ segs[1] = << "g","k","e" >>
      /\ \A j \in 2..4 : /\ Len(segs[j]) >= 1
                         /\ \A i \in 1..Len(segs[j]) : LabelChar(segs[j][i])

\* The callback of strings.Map with the digits turned into hyphens as well.
MapRune_DropsDigits(r) ==
  IF r \in Lower THEN r
  ELSE IF r \in Upper THEN ToLowerASCII(r)
  ELSE "-"

\* ------------------------------------------------------------------------
\* MakeDNSFriendly (backend)
\* ------------------------------------------------------------------------
\* The callback of strings.Map: lower-case ASCII letters, keep digits and the
\* hyphen, turn every other rune (ASCII or not) into a hyphen.
MapRune(r) ==
  IF r \in Lower THEN r
  ELSE IF r \in Upper THEN ToLowerASCII(r)
  ELSE IF r \in Digit THEN r
  ELSE IF r = "-" THEN r
  ELSE "-"

RECURSIVE StringsMapFrom(_, _)
StringsMapFrom(s, i) ==
  IF i > Len(s) THEN << >>
  ELSE IF i = Len(s) THEN << MapRune(s[i]) >>
  ELSE LET mid == (i + Len(s)) \div 2
       IN  StringsMapFrom(SubSeq(s, 1, mid), i) \o StringsMapFrom(s, mid + 1)

StringsMap(s) == StringsMapFrom(s, 1)

\* What a run-time panic (slice bounds out of range) is written as.
Panic == << "!panic" >>

\* p[:n] in Go: panics when n > len(p).
GoPrefix(p, n) == IF n > Len(p) THEN Panic ELSE SubSeq(p, 1, n)

\* truncateParts with the target length of a part rounded up.
truncateParts_RoundsUp(parts, maxLength) ==
  IF Len(parts) = 0 THEN << >>
  ELSE LET targetLen == GoDiv(maxLength - (Len(parts) - 1), Len(parts)) + 1
       IN  IF targetLen < 1
           THEN LET first == GoPrefix(parts[1], 1)
                    last  == GoPrefix(parts[Len(parts)], 1)
                IN  IF first = Panic \/ last = Panic THEN Panic
                    ELSE first \o << "-" >> \o last
           ELSE Join([i \in 1..Len(parts) |->
                        IF Len(parts[i]) > targetLen
                        THEN SubSeq(parts[i], 1, targetLen)
                        ELSE parts[i]],
                     << "-" >>)

truncateParts(parts, maxLength) ==
  IF Len(parts) = 0 THEN << >>
  ELSE LET targetLen == GoDiv(maxLength - (Len(parts) - 1), Len(parts))
       IN  IF targetLen < 1
           THEN LET first == GoPrefix(parts[1], 1)
                    last  == GoPrefix(parts[Len(parts)], 1)
                IN  IF first = Panic \/ last = Panic THEN Panic
                    ELSE first \o << "-" >> \o last
           ELSE Join([i \in 1..Len(parts) |->
                        IF Len(parts[i]) > targetLen
                        THEN SubSeq(parts[i], 1, targetLen)
                        ELSE parts[i]],
                     << "-" >>)

\* The steps of MakeDNSFriendly after the empty and GKE checks; order is the
\* order in which the replacements map is ranged over.
CleanName(name, order) ==
  LET replaced == ApplyReplacements(name, order)
      mapped   == StringsMap(replaced)
      single   == RemoveConsecutiveHyphens(mapped)
      trimmed  == TrimHyphens(single)
      headed   == IF trimmed = << >> \/ ~isAlphanumeric(trimmed[1])
                  THEN << "x", "-" >> \o trimmed ELSE trimmed
  IN  IF ~isAlphanumeric(headed[Len(headed)])
      THEN headed \o << "-", "x" >> ELSE headed

\* MakeDNSFriendly without the check of the empty name on entry.
MakeDNSFriendly_NoEmptyCheck(name, order) ==
  IF HasPrefix(name, GkePrefix) /\ Count(name, "_") >= 3 /\ GkeRegexMatch(name)
  THEN name
  ELSE LET cleaned == CleanName(name, order)
           result  == IF Len(cleaned) > MaxDNSLabelLength
                      THEN IF \E i \in 1..Len(cleaned) : cleaned[i] = "-"
                           THEN truncateParts(Split(cleaned, "-"), MaxDNSLabelLength)
                           ELSE SubSeq(cleaned, 1, MaxDNSLabelLength)
                      ELSE cleaned
       IN  IF result = << >> THEN UnnamedContext ELSE result

MakeDNSFriendly(name, order) ==
  IF name = << >> THEN UnnamedContext
  ELSE IF HasPrefix(name, GkePrefix) /\ Count(name, "_") >= 3 /\ GkeRegexMatch(name)
  THEN name
  ELSE LET cleaned == CleanName(name, order)
           result  == IF Len(cleaned) > MaxDNSLabelLength
                      THEN IF \E i \in 1..Len(cleaned) : cleaned[i] = "-"
                           THEN truncateParts(Split(cleaned, "-"), MaxDNSLabelLength)
                           ELSE SubSeq(cleaned, 1, MaxDNSLabelLength)
                      ELSE cleaned
       IN  IF result = << >> THEN UnnamedContext ELSE result

\* ------------------------------------------------------------------------
\* makeDNSFriendly (frontend)
\* ------------------------------------------------------------------------
\* String.prototype.toLowerCase on one character. It follows the Unicode case
\* mapping: beside A..Z, the Kelvin sign U+212A lower-cases to "k" and the
\* dotted capital I U+0130 to "i" followed by the combining dot U+0307.
JsLowerChar(c) ==
  IF c \in Upper THEN << ToLowerASCII(c) >>
  ELSE IF c = "U+212A" THEN << "k" >>
  ELSE IF c = "U+0130" THEN << "i", "U+0307" >>
  ELSE << c >>

RECURSIVE JsToLowerFrom(_, _)
JsToLowerFrom(s, i) ==
  IF i > Len(s) THEN << >>
  ELSE IF i = Len(s) THEN JsLowerChar(s[i])
  ELSE LET mid == (i + Len(s)) \div 2
       IN  JsToLowerFrom(SubSeq(s, 1, mid), i) \o JsToLowerFrom(s, mid + 1)

toLowerCase(s) == JsToLowerFrom(s, 1)

RECURSIVE JsUnsafeFrom(_, _)
JsUnsafeFrom(s, i) ==
  IF i > Len(s) THEN << >>
  ELSE IF i = Len(s) THEN << IF LabelChar(s[i]) THEN s[i] ELSE "-" >>
  ELSE LET mid == (i + Len(s)) \div 2
       IN  JsUnsafeFrom(SubSeq(s, 1, mid), i) \o JsUnsafeFrom(s, mid + 1)

\* result.replace(/[^a-z0-9-]/g, -)
JsReplaceUnsafe(s) == JsUnsafeFrom(s, 1)

JsCleanName(name) ==
  LET lowered  == toLowerCase(name)
      replaced == ApplyReplacements(lowered, SourceOrder)
      safe     == JsReplaceUnsafe(replaced)
      single   == JsCollapseHyphens(safe)
      trimmed  == TrimHyphens(single)
      headed   == IF trimmed = << >> \/ ~JsAlnum(trimmed[1])
                  THEN << "x", "-" >> \o trimmed ELSE trimmed
  IN  IF ~JsAlnum(headed[Len(headed)])
      THEN headed \o << "-", "x" >> ELSE headed

JsTruncate(result) ==
  IF \E i \in 1..Len(result) : result[i] = "-"
  THEN LET parts     == Split(result, "-")
           targetLen == JsFloorDiv(MAX_DNS_LABEL_LENGTH - (Len(parts) - 1), Len(parts))
       IN  IF targetLen >= 1
           THEN Join([i \in 1..Len(parts) |-> Prefix(parts[i], targetLen)], << "-" >>)
           ELSE Prefix(parts[1], 1) \o << "-" >> \o Prefix(parts[Len(parts)], 1)
  ELSE Prefix(result, MAX_DNS_LABEL_LENGTH)

makeDNSFriendly(name) ==
  IF name = << >> THEN UnnamedContext
  ELSE IF HasPrefix(name, GkePrefix) /\ Len(Split(name, "_")) >= 4 /\ GkeRegexMatch(name)
  THEN name
  ELSE LET cleaned == JsCleanName(name)
           result  == IF Len(cleaned) > MAX_DNS_LABEL_LENGTH
                      THEN JsTruncate(cleaned) ELSE cleaned
       IN  IF result = << >> THEN UnnamedContext ELSE result

\* /^[a-z0-9][a-z0-9-]*[a-z0-9]$/ (validDNSLabel; the regexp the backend test
\* asserts on every result).
validDNSLabel(s) ==
  /\ Len(s) >= 2
  /\ JsAlnum(s[1])
  /\ JsAlnum(s[Len(s)])
  /\ \A i \in 1..Len(s) : LabelChar(s[i])

IsAscii(s) == \A i \in 1..Len(s) : s[i] \in Ascii

\* ------------------------------------------------------------------------
\* Inputs of the canonicalizers
\* ------------------------------------------------------------------------
\* Every string of at most MaxLen characters over CanonAlphabet ...
MaxLen == 3

\* ... and strings of up to MaxLong characters built from repeated parts.
MaxLong == 70

MinLong == 58

CanonAlphabet == { "a", "A", "1", "-", "_", " ", "@", "U+212A", "U+6D4B" }

RECURSIVE StringsOfLen(_)
StringsOfLen(n) ==
  IF n = 0 THEN { << >> }
  ELSE { Append(s, c) : s \in StringsOfLen(n - 1), c \in CanonAlphabet }

ShortInputs == UNION { StringsOfLen(n) : n \in 0..MaxLen }

\* c repeated n times.
Repeat(c, n) == [i \in 1..n |-> c]

\* n parts of len characters "a", joined by sep.
EvenParts(n, len, sep) == Join([i \in 1..n |-> Repeat("a", len)], << sep >>)

\* One part of len characters "a" followed by m parts "b".
UnevenParts(len, m) == Join(<< Repeat("a", len) >> \o Repeat(<< "b" >>, m), << "-" >>)

\* gke_<len x "a">_b_c
GkeName(len) == GkePrefix \o Repeat("a", len) \o << "_", "b", "_", "c" >>

\* The shapes <<n, len>> whose joined length lies in MinLong..MaxLong.
LongShapes ==
  { p \in (1..MaxLong) \X (1..MaxLong) : p[1] * (p[2] + 1) - 1 \in MinLong..MaxLong }

LongInputs ==
  { EvenParts(p[1], p[2], sep) : p \in LongShapes, sep \in { "-", " ", "." } }

CanonInputs ==
  ShortInputs
  \cup LongInputs
  \cup { UnevenParts(len, m) : len \in (MinLong - 6)..(MaxLong - 2), m \in 1..3 }
  \cup { GkeName(len) : len \in { 1, MaxLong } }
  \cup { << "g","k","e","_","a","_","b" >>, << "g","k","e","_","A","_","b","_","c" >>,
         << "g","k","e","_","a","_","b","_","c","_","d" >>,
         << "g","k","e","_","a","@","_","b","_","c" >>,
         << "g","k","e","_","_","b","_","c" >> }

\* ------------------------------------------------------------------------
\* State
\* ------------------------------------------------------------------------
VARIABLES
  raw,     \* canonicalizers: the identifier under canonicalization
  srv,     \* canonicalizers: result of MakeDNSFriendly(raw)
  cli,     \* canonicalizers: result of makeDNSFriendly(raw)
  again,   \* canonicalizers: result of MakeDNSFriendly(srv.out)
  store,   \* contextStore.cache: key -> entry (value, optional expiry)
  now,     \* the clock read by the cache
  last,    \* the latest call on the store and what the caller saw of it
  friendly, \* MakeDNSFriendly over the names the callers of the store pass
  procs,   \* concurrent callers of the store: where each is in its call
  registry, \* the stateless-cluster registry: its records, in key order
  wizard   \* KubeConfigLoader: the state of the component (its useState values)

vars == << raw, srv, cli, again, store, now, last, friendly, procs, registry, wizard >>

canonVars == << raw, srv, cli, again >>

storeVars == << store, now, last, friendly >>

\* What the sequential calls on the store and the canonicalizers leave alone.
otherVars == << procs, registry, wizard >>

NotRun == [done |-> FALSE, out |-> << >>]

Ran(out) == [done |-> TRUE, out |-> out]

\* ------------------------------------------------------------------------
\* Canonicalizers as a state machine: one identifier, canonicalized by the
\* backend, by the frontend, and by the backend again on its own result.
\* ------------------------------------------------------------------------
ServerCanonicalize ==
  /\ ~srv.done
  /\ \E order \in MapOrders : srv' = Ran(MakeDNSFriendly(raw, order))
  /\ UNCHANGED << raw, cli, again, storeVars, otherVars >>

ClientCanonicalize ==
  /\ ~cli.done
  /\ cli' = Ran(makeDNSFriendly(raw))
  /\ UNCHANGED << raw, srv, again, storeVars, otherVars >>

ServerRecanonicalize ==
  /\ srv.done
  /\ ~again.done
  /\ \E order \in MapOrders : again' = Ran(MakeDNSFriendly(srv.out, order))
  /\ UNCHANGED << raw, srv, cli, storeVars, otherVars >>

\* ------------------------------------------------------------------------
\* Cache<V>: TTL key-value container (pkg/cache)
\* ------------------------------------------------------------------------
EmptyCache == << >>

\* CacheEntry: a value and an optional absolute expiry instant.
Permanent(v) == [value |-> v, hasExpiry |-> FALSE, expiresAt |-> 0]

Expiring(v, at) == [value |-> v, hasExpiry |-> TRUE, expiresAt |-> at]

\* An entry that expires at instant e is expired from e on.
isExpired(e, t) == e.hasExpiry /\ t >= e.expiresAt

\* The key holds an entry that has not expired.
CacheHas(st, t, k) == k \in DOMAIN st /\ ~isExpired(st[k], t)

CachePut(st, k, e) == [x \in (DOMAIN st) \cup { k } |-> IF x = k THEN e ELSE st[x]]

CacheDrop(st, k) == [x \in (DOMAIN st) \ { k } |-> st[x]]

CacheSet(st, k, v) == CachePut(st, k, Permanent(v))

CacheSetWithTTL(st, t, k, v, ttl) == CachePut(st, k, Expiring(v, t + ttl))

\* Get: an expired entry is treated as absent, and is dropped on this access.
CacheGet(st, t, k, none) ==
  IF CacheHas(st, t, k)
  THEN [err |-> "nil", value |-> st[k].value, store |-> st]
  ELSE [err |-> "ErrNotFound", value |-> none,
        store |-> IF k \in DOMAIN st THEN CacheDrop(st, k) ELSE st]

\* GetAll(nil): key -> value over the entries that have not expired.
CacheGetAll(st, t) == [k \in { x \in DOMAIN st : ~isExpired(st[x], t) } |-> st[k].value]

\* Delete: NotFound on an absent or expired key.
CacheDelete(st, t, k) ==
  IF CacheHas(st, t, k)
  THEN [err |-> "nil", store |-> CacheDrop(st, k)]
  ELSE [err |-> "ErrNotFound", store |-> st]

\* UpdateTTL: NotFound on an absent or expired key, else expiry := now + ttl.
CacheUpdateTTL(st, t, k, ttl) ==
  IF CacheHas(st, t, k)
  THEN [err |-> "nil", store |-> CachePut(st, k, Expiring(st[k].value, t + ttl))]
  ELSE [err |-> "ErrNotFound", store |-> st]

\* ------------------------------------------------------------------------
\* Contexts
\* ------------------------------------------------------------------------
\* KubeContext.Extensions["headlamp_info"]: absent, an object with a customName
\* (empty when the field is missing), or a payload that does not decode.
NoExt == [kind |-> "none", customName |-> << >>]

BadExt == [kind |-> "bad", customName |-> << >>]

ObjExt(n) == [kind |-> "obj", customName |-> n]

\* A Context as passed to the store: its Name, its headlamp_info extension,
\* and id for the rest of the record (cluster, auth info, source).
Ctx(name, ext, id) == [Name |-> name, ext |-> ext, id |-> id]

\* A Context as the store holds and returns it: no store operation reads the
\* extension again, so it is part of what id stands for.
Held(name, id) == [Name |-> name, id |-> id]

NoCtx == Held(<< >>, 0)

\* ------------------------------------------------------------------------
\* Inputs of the store
\* ------------------------------------------------------------------------
MaxCtx == 2

MaxTTL == 2

MaxTime == 2

\* Context names as supplied: two that canonicalize to the same name.
StoreNames == { << "a", " ", "b" >>, << "a", "-", "b" >> }

CustomNames == { << >>, << "c" >> }

Exts == { NoExt, BadExt } \cup { ObjExt(n) : n \in CustomNames }

Contexts == { Ctx(n, e, i) : n \in StoreNames, e \in Exts, i \in 1..MaxCtx }

\* Contexts given to AddContextWithKeyAndTTL.
KeyedContexts ==
  { Ctx(n, e, i) : n \in StoreNames, e \in { NoExt, ObjExt(<< "c" >>) }, i \in 1..MaxCtx }

\* Caller-supplied keys of AddContextWithKeyAndTTL: the canonical name of the
\* contexts, and a key that is not their canonical name.
StoreKeys == { << "a", "-", "b" >>, << "c" >> }

\* Names looked up, removed and refreshed: the keys in use and one never added.
LookupNames == StoreKeys \cup { << "z" >> }

TTLs == 1..MaxTTL

\* MakeDNSFriendly is pure: its results for the names the store is given,
\* name -> the results over the iteration orders of the replacements map.
FriendlyNames ==
  [n \in StoreNames \cup CustomNames |-> { MakeDNSFriendly(n, o) : o \in MapOrders }]

\* ------------------------------------------------------------------------
\* contextStore
\* ------------------------------------------------------------------------
\* EffectiveName with the customName override left out.
EffectiveName_IgnoresCustomName(ctx) == ctx.Name

\* Lines 41-63 of AddContext: the name before canonicalization.
EffectiveName(ctx) ==
  IF ctx.ext.kind = "obj" /\ ctx.ext.customName # << >>
  THEN ctx.ext.customName
  ELSE ctx.Name

\* AddContextCall storing under the name as supplied instead of the
\* canonical name.
AddContextCall_KeyIsSuppliedName(st, ctx, friendlyName) ==
  IF ctx.ext.kind = "bad"
  THEN [err |-> "decode", name |-> ctx.Name, store |-> st]
  ELSE [err |-> "nil", name |-> friendlyName,
        store |-> CacheSet(st, EffectiveName(ctx), Held(friendlyName, ctx.id))]

\* AddContextCall writing the entry before the extension is decoded.
AddContextCall_StoresDespiteDecodeError(st, ctx, friendlyName) ==
  [err |-> IF ctx.ext.kind = "bad" THEN "decode" ELSE "nil",
   name |-> IF ctx.ext.kind = "bad" THEN ctx.Name ELSE friendlyName,
   store |-> CacheSet(st, friendlyName, Held(friendlyName, ctx.id))]

\* AddContext: the error returned, ctx.Name as the caller sees it after the
\* call (it is overwritten through the pointer) and the cache after the call.
\* friendlyName is what MakeDNSFriendly(name) returns on line 64.
AddContextCall(st, ctx, friendlyName) ==
  IF ctx.ext.kind = "bad"
  THEN [err |-> "decode", name |-> ctx.Name, store |-> st]
  ELSE [err |-> "nil", name |-> friendlyName,
        store |-> CacheSet(st, friendlyName, Held(friendlyName, ctx.id))]

\* GetContexts: the contexts of cache.GetAll, in the order of a map range;
\* kept here by key.
GetContextsCall(st, t) == CacheGetAll(st, t)

\* GetContextCall returning without the error of the cache.
GetContextCall_DropsError(st, t, name) ==
  [CacheGet(st, t, name, NoCtx) EXCEPT !.err = "nil"]

GetContextCall(st, t, name) == CacheGet(st, t, name, NoCtx)

\* RemoveContextCall reporting success without removing the entry.
RemoveContextCall_KeepsEntry(st, t, name) ==
  [CacheDelete(st, t, name) EXCEPT !.store = st]

\* RemoveContextCall returning without the error of the cache.
RemoveContextCall_DropsError(st, t, name) ==
  [CacheDelete(st, t, name) EXCEPT !.err = "nil"]

RemoveContextCall(st, t, name) == CacheDelete(st, t, name)

\* AddContextWithKeyAndTTLCall storing under the canonical name instead of
\* the key of the caller.
AddContextWithKeyAndTTLCall_KeyIsCanonicalName(st, t, ctx, key, ttl, friendlyName) ==
  [err |-> "nil", name |-> friendlyName,
   store |-> CacheSetWithTTL(st, t, friendlyName, Held(friendlyName, ctx.id), ttl)]

\* friendlyName is what MakeDNSFriendly(headlampContext.Name) returns on line 103.
AddContextWithKeyAndTTLCall(st, t, ctx, key, ttl, friendlyName) ==
  [err |-> "nil", name |-> friendlyName,
   store |-> CacheSetWithTTL(st, t, key, Held(friendlyName, ctx.id), ttl)]

\* UpdateTTLCall passing a longer ttl than it was given.
UpdateTTLCall_LongerTTL(st, t, key, ttl) == CacheUpdateTTL(st, t, key, ttl + 1)

\* UpdateTTLCall that never shortens a lifetime.
UpdateTTLCall_OnlyExtends(st, t, key, ttl) ==
  LET r == CacheUpdateTTL(st, t, key, ttl)
  IN  IF r.err = "nil" /\ (~st[key].hasExpiry \/ st[key].expiresAt > t + ttl)
      THEN [err |-> "nil", store |-> st]
      ELSE r

\* UpdateTTLCall returning without the error of the cache.
UpdateTTLCall_DropsError(st, t, key, ttl) ==
  [CacheUpdateTTL(st, t, key, ttl) EXCEPT !.err = "nil"]

UpdateTTLCall(st, t, key, ttl) == CacheUpdateTTL(st, t, key, ttl)

\* ------------------------------------------------------------------------
\* Calls on the store
\* ------------------------------------------------------------------------
\* What the caller of the latest call saw: the method, the error, ctx.Name
\* after the call (Add methods), the key concerned, and the id of the context
\* passed or returned; and what the key held when the call was made: the id of
\* its context (0: none) and its expiry instant (0: none).
Call(op, err, name, key, id, st, t) ==
  [op |-> op, err |-> err, name |-> name, key |-> key, id |-> id,
   was |-> IF CacheHas(st, t, key) THEN st[key].value.id ELSE 0,
   exp |-> IF CacheHas(st, t, key) /\ st[key].hasExpiry THEN st[key].expiresAt ELSE 0]

\* The results AddContext(ctx) can return in the current state.
AddContextOutcomes(ctx) ==
  { AddContextCall(store, ctx, friendlyName) : friendlyName \in friendly[EffectiveName(ctx)] }

\* The results AddContextWithKeyAndTTL(ctx, key, ttl) can return in the current state.
AddContextWithKeyAndTTLOutcomes(ctx, key, ttl) ==
  { AddContextWithKeyAndTTLCall(store, now, ctx, key, ttl, friendlyName) :
      friendlyName \in friendly[ctx.Name] }

AddContext(ctx) ==
  \E r \in AddContextOutcomes(ctx) :
    /\ store' = r.store
    /\ last' = Call("AddContext", r.err, r.name,
                    IF r.err = "nil" THEN r.name ELSE << >>, ctx.id, store, now)
    /\ UNCHANGED << now, friendly, canonVars, otherVars >>

GetContexts ==
  /\ last' = Call("GetContexts", "nil", << >>, << >>, 0, store, now)
  /\ UNCHANGED << store, now, friendly, canonVars, otherVars >>

GetContext(name) ==
  LET r == GetContextCall(store, now, name)
  IN  /\ store' = r.store
      /\ last' = Call("GetContext", r.err, << >>, name, r.value.id, store, now)
      /\ UNCHANGED << now, friendly, canonVars, otherVars >>

RemoveContext(name) ==
  LET r == RemoveContextCall(store, now, name)
  IN  /\ store' = r.store
      /\ last' = Call("RemoveContext", r.err, << >>, name, 0, store, now)
      /\ UNCHANGED << now, friendly, canonVars, otherVars >>

AddContextWithKeyAndTTL(ctx, key, ttl) ==
  \E r \in AddContextWithKeyAndTTLOutcomes(ctx, key, ttl) :
    /\ store' = r.store
    /\ last' = Call("AddContextWithKeyAndTTL", r.err, r.name, key, ctx.id, store, now)
    /\ UNCHANGED << now, friendly, canonVars, otherVars >>

UpdateTTL(key, ttl) ==
  LET r == UpdateTTLCall(store, now, key, ttl)
  IN  /\ store' = r.store
      /\ last' = Call("UpdateTTL", r.err, << >>, key, 0, store, now)
      /\ UNCHANGED << now, friendly, canonVars, otherVars >>

\* Time passes between calls.
Tick ==
  /\ now < MaxTime
  /\ now' = now + 1
  /\ last' = Call("Tick", "nil", << >>, << >>, 0, store, now)
  /\ UNCHANGED << store, friendly, canonVars, otherVars >>

\* ------------------------------------------------------------------------
\* Specifications
\* ------------------------------------------------------------------------
\* NewContextStore(): an empty cache.
InitStore ==
  /\ store = EmptyCache
  /\ now = 0
  /\ last = Call("NewContextStore", "nil", << >>, << >>, 0, EmptyCache, 0)
  /\ friendly = FriendlyNames

Init ==
  /\ raw = << >>
  /\ srv = NotRun
  /\ cli = NotRun
  /\ again = NotRun
  /\ InitStore
  /\ procs = << >>
  /\ registry = << >>
  /\ wizard = << >>

Next ==
  \/ \E ctx \in Contexts : AddContext(ctx)
  \/ GetContexts
  \/ \E name \in LookupNames : GetContext(name)
  \/ \E name \in LookupNames : RemoveContext(name)
  \/ \E ctx \in KeyedContexts, key \in StoreKeys, ttl \in TTLs :
        AddContextWithKeyAndTTL(ctx, key, ttl)
  \/ \E key \in LookupNames, ttl \in TTLs : UpdateTTL(key, ttl)
  \/ Tick

Spec == Init /\ [][Next]_vars

\* No store call is made while the canonicalizers run.
InitCanon ==
  /\ raw \in CanonInputs
  /\ srv = NotRun
  /\ cli = NotRun
  /\ again = NotRun
  /\ store = EmptyCache
  /\ now = 0
  /\ last = Call("NewContextStore", "nil", << >>, << >>, 0, EmptyCache, 0)
  /\ friendly = << >>
  /\ procs = << >>
  /\ registry = << >>
  /\ wizard = << >>

NextCanon ==
  \/ ServerCanonicalize
  \/ ClientCanonicalize
  \/ ServerRecanonicalize

SpecCanon == InitCanon /\ [][NextCanon]_vars

\* ------------------------------------------------------------------------
\* Claims about the canonicalizers (checked under SpecCanon)
\* ------------------------------------------------------------------------
\* The claims about non-GKE inputs exclude exactly the inputs of this pattern.
MatchesGkePattern(name) == GkeRegexMatch(name)

\* C1: for every non-empty ASCII input that does not match the strict GKE
\* pattern, the result of MakeDNSFriendly and of the client makeDNSFriendly
\* matches ^[a-z0-9][a-z0-9-]*[a-z0-9]$ and is at most 63 characters long,
\* inputs of one character and inputs of special characters only included.
C1_ResultIsDNSLabel ==
  (raw # << >> /\ IsAscii(raw) /\ ~MatchesGkePattern(raw)) =>
    /\ srv.done => (validDNSLabel(srv.out) /\ Len(srv.out) <= 63)
    /\ cli.done => (validDNSLabel(cli.out) /\ Len(cli.out) <= 63)

\* C2: for every input the client makeDNSFriendly returns exactly the string
\* the server MakeDNSFriendly returns.
C2_ClientMatchesServer ==
  (srv.done /\ cli.done) => cli.out = srv.out

\* C3: MakeDNSFriendly is idempotent: applied to its own result it returns
\* that result.
C3_Idempotent ==
  again.done => again.out = srv.out

\* ------------------------------------------------------------------------
\* Claims about the context store (checked under Spec)
\* ------------------------------------------------------------------------
\* How many contexts GetContexts returns.
NumContexts(st, t) == Cardinality(DOMAIN GetContextsCall(st, t))

\* The instants at which a lookup is considered: now and every later instant
\* up to past the largest expiry an entry can have.
Instants == now..(MaxTime + MaxTTL + 1)

\* C4: AddContext stores the context under the key MakeDNSFriendly(n) and sets
\* ctx.Name to it, n being the customName of the headlamp_info extension when
\* present and non-empty and ctx.Name otherwise; afterwards GetContext of that
\* key returns the context, its Name equal to the key.
C4_AddContextStoresUnderCanonicalName ==
  /\ \A ctx \in Contexts : \A r \in AddContextOutcomes(ctx) :
       ctx.ext.kind # "bad" =>
         LET n == IF ctx.ext.kind = "obj" /\ ctx.ext.customName # << >>
                  THEN ctx.ext.customName ELSE ctx.Name
             got == GetContextCall(r.store, now, r.name)
         IN  /\ r.err = "nil"
             /\ r.name \in friendly[n]
             /\ got.err = "nil"
             /\ got.value = Held(r.name, ctx.id)
  /\ (last.op = "AddContext" /\ last.err = "nil") =>
       LET got == GetContextCall(store, now, last.name)
       IN  got.err = "nil" /\ got.value = Held(last.name, last.id)

\* An AddContext with a customName has stored its context under the canonical
\* customName.
C4_Witness ==
  /\ last.op = "AddContext"
  /\ last.err = "nil"
  /\ last.name = << "c" >>
  /\ GetContextCall(store, now, << "c" >>).value = Held(<< "c" >>, last.id)

\* C5: when AddContext is called twice with inputs whose effective names
\* canonicalize to the same name, GetContexts returns as many contexts after
\* the second call as after the first, and GetContext of the name returns the
\* context of the second call.
C5_SecondAddContextOverwrites ==
  [][ ( /\ last.op = "AddContext" /\ last.err = "nil"
        /\ last'.op = "AddContext" /\ last'.err = "nil"
        /\ last'.name = last.name )
      => /\ NumContexts(store', now') = NumContexts(store, now)
         /\ GetContextCall(store', now', last'.name).err = "nil"
         /\ GetContextCall(store', now', last'.name).value = Held(last'.name, last'.id)
    ]_vars

\* A second AddContext has replaced the context of another call under its name.
C5_Witness ==
  /\ last.op = "AddContext"
  /\ last.err = "nil"
  /\ last.was # 0
  /\ last.was # last.id
  /\ GetContextCall(store, now, last.name).value.id = last.id

\* C6: in every reachable state no two entries returned by GetContexts have
\* the same Name.
C6_NamesUnique ==
  LET all == GetContextsCall(store, now)
  IN  \A k1 \in DOMAIN all : \A k2 \in DOMAIN all :
        k1 # k2 => all[k1].Name # all[k2].Name

\* C7: an entry with a TTL is inaccessible from its expiry instant on without
\* any sweep: GetContext of its key fails with NotFound and GetContexts does
\* not contain it; before that instant both return it.
C7_ExpiredEntryInaccessible ==
  \A k \in DOMAIN store : store[k].hasExpiry =>
    \A t \in Instants :
      LET got == GetContextCall(store, t, k)
          all == GetContextsCall(store, t)
      IN  IF t >= store[k].expiresAt
          THEN got.err = "ErrNotFound" /\ k \notin DOMAIN all
          ELSE /\ got.err = "nil"
               /\ got.value = store[k].value
               /\ k \in DOMAIN all
               /\ all[k] = store[k].value

\* The cache still holds an entry whose expiry instant has passed, and a
\* lookup of it fails.
C7_Witness ==
  \E k \in DOMAIN store :
    /\ store[k].hasExpiry
    /\ now >= store[k].expiresAt
    /\ GetContextCall(store, now, k).err = "ErrNotFound"
    /\ k \notin DOMAIN GetContextsCall(store, now)

\* C8: a successful UpdateTTL(key, d) at time t resets the expiry to t+d:
\* GetContext(key) succeeds at every time before t+d, also past the original
\* expiry, and fails with NotFound from t+d on; UpdateTTL on a key that was
\* never added fails with NotFound and leaves the store unchanged.
C8_UpdateTTLResetsExpiry ==
  \A key \in LookupNames : \A ttl \in TTLs :
    LET r == UpdateTTLCall(store, now, key, ttl)
    IN  /\ CacheHas(store, now, key) =>
             /\ r.err = "nil"
             /\ \A t \in Instants :
                  LET got == GetContextCall(r.store, t, key)
                  IN  IF t < now + ttl
                      THEN got.err = "nil" /\ got.value = store[key].value
                      ELSE got.err = "ErrNotFound"
        /\ key \notin DOMAIN store =>
             r.err = "ErrNotFound" /\ r.store = store

\* A successful UpdateTTL has moved the expiry of an entry past its original
\* expiry instant.
C8_Witness ==
  /\ last.op = "UpdateTTL"
  /\ last.err = "nil"
  /\ last.exp # 0
  /\ store[last.key].expiresAt > last.exp
  /\ GetContextCall(store, last.exp, last.key).err = "nil"

\* Whether an entry that was old and is new has not been made to expire
\* sooner.
NotSooner(old, new) ==
  IF old.hasExpiry
  THEN new.hasExpiry => new.expiresAt >= old.expiresAt
  ELSE ~new.hasExpiry

C10_UpdateTTLOnExpired ==
  \A key \in LookupNames : \A ttl \in TTLs :
    (key \notin DOMAIN store \/ isExpired(store[key], now)) =>
      LET r == UpdateTTLCall(store, now, key, ttl)
      IN  /\ r.err = "ErrNotFound"
          /\ \A t \in Instants :
               /\ GetContextCall(r.store, t, key).err = "ErrNotFound"
               /\ key \notin DOMAIN GetContextsCall(r.store, t)

\* UpdateTTL was called on an expired entry that the cache still holds, and
\* the entry is as inaccessible as before.
C10_Witness ==
  /\ last.op = "UpdateTTL"
  /\ last.err = "ErrNotFound"
  /\ last.key \in DOMAIN store
  /\ isExpired(store[last.key], now)
  /\ GetContextCall(store, now, last.key).err = "ErrNotFound"

\* C11: if the headlamp_info extension of the context passed to AddContext
\* cannot be decoded, AddContext returns the decode error (not NotFound),
\* writes no entry, leaves every entry and the result of GetContexts as they
\* were, and does not change ctx.Name.
C11_DecodeErrorWritesNothing ==
  /\ \A ctx \in Contexts : ctx.ext.kind = "bad" =>
       \A r \in AddContextOutcomes(ctx) :
         /\ r.err = "decode"
         /\ r.err # "ErrNotFound"
         /\ r.store = store
         /\ GetContextsCall(r.store, now) = GetContextsCall(store, now)
         /\ r.name = ctx.Name
  /\ (last.op = "AddContext" /\ last.err = "decode") =>
       /\ last.name \in StoreNames
       /\ last.key = << >>

\* AddContext has failed on an undecodable extension while the store held an
\* entry, and the name of the context is still the name as supplied.
C11_Witness ==
  /\ last.op = "AddContext"
  /\ last.err = "decode"
  /\ last.name = << "a", " ", "b" >>
  /\ NumContexts(store, now) >= 1

C14_RemoveContextRemovesOne ==
  \A name \in LookupNames :
    LET r == RemoveContextCall(store, now, name)
    IN  /\ CacheHas(store, now, name) =>
             /\ r.err = "nil"
             /\ GetContextCall(r.store, now, name).err = "ErrNotFound"
             /\ NumContexts(r.store, now) = NumContexts(store, now) - 1
             /\ DOMAIN r.store = (DOMAIN store) \ { name }
             /\ \A k \in DOMAIN r.store : r.store[k] = store[k]
        /\ name \notin DOMAIN store =>
             GetContextCall(store, now, name).err # "nil"

\* RemoveContext has removed an entry from a store that holds another one.
C14_Witness ==
  /\ last.op = "RemoveContext"
  /\ last.err = "nil"
  /\ last.was # 0
  /\ last.key \notin DOMAIN store
  /\ NumContexts(store, now) = 1
  /\ GetContextCall(store, now, last.key).err = "ErrNotFound"

\* C15: RemoveContext on a key that is absent or expired reports NotFound,
\* not success, and leaves the store unchanged.
C15_RemoveContextNotFound ==
  \A name \in LookupNames :
    ~CacheHas(store, now, name) =>
      LET r == RemoveContextCall(store, now, name)
      IN  r.err = "ErrNotFound" /\ r.store = store

\* RemoveContext was called on an expired entry that the cache still holds.
C15_Witness ==
  /\ last.op = "RemoveContext"
  /\ last.err = "ErrNotFound"
  /\ last.key \in DOMAIN store
  /\ isExpired(store[last.key], now)

\* ------------------------------------------------------------------------
\* Further claims about the canonicalizers (checked under SpecCanon)
\* ------------------------------------------------------------------------
\* The full GKE pattern, stated on positions: the prefix gke_, exactly three
\* underscores, none adjacent to another or last, every other character of
\* the class [a-z0-9-].
FullGkePattern(name) ==
  LET us == { i \in 1..Len(name) : name[i] = "_" }
  IN  /\ Len(name) >= 4
      /\ SubSeq(name, 1, 4) = << "g", "k", "e", "_" >>
      /\ Cardinality(us) = 3
      /\ Len(name) \notin us
      /\ \A i \in us : i + 1 \notin us
      /\ \A i \in (1..Len(name)) \ us : LabelChar(name[i])

\* C16: no result of MakeDNSFriendly, other than an input returned unchanged
\* by the GKE rule, contains two consecutive hyphens, inputs that clean to the
\* empty string and get the x- / -x padding included.
C16_NoConsecutiveHyphens ==
  (srv.done /\ ~FullGkePattern(raw)) => ~ContainsDoubleHyphen(srv.out)

C18_Total ==
  srv.done =>
    /\ srv.out # Panic
    /\ srv.out # << >>
    /\ raw = << >> => srv.out = UnnamedContext

\* MakeDNSFriendly has returned from the branch of truncateParts that slices
\* the first and the last part: an input of more than 32 one-character parts.
C18_Witness ==
  /\ srv.done
  /\ Len(raw) > 63
  /\ Len(Split(raw, "-")) >= 33
  /\ srv.out = << "a", "-", "a" >>

\* The truncation the claim describes, of a cleaned form longer than 63.
Truncated(cleaned) ==
  LET parts     == Split(cleaned, "-")
      n         == Len(parts)
      targetLen == (63 - (n - 1)) \div n
      cut(p)    == IF Len(p) <= targetLen THEN p ELSE SubSeq(p, 1, targetLen)
  IN  IF Count(cleaned, "-") = 0 THEN SubSeq(cleaned, 1, 63)
      ELSE IF targetLen >= 1 THEN Join([i \in 1..n |-> cut(parts[i])], << "-" >>)
      ELSE << parts[1][1], "-", parts[n][1] >>

\* C19: for every input whose cleaned form is longer than 63 characters the
\* result is the first 63 characters when the cleaned form has no hyphen;
\* otherwise, with n parts and targetLen = floor((63-(n-1))/n), every part cut
\* to at most targetLen characters and rejoined with as many parts when
\* targetLen >= 1, and the first character of the first part, a hyphen, the
\* first character of the last part when targetLen < 1 (n >= 33); the result
\* is never longer than 63 characters.
C19_Truncation ==
  (raw # << >> /\ ~FullGkePattern(raw)) =>
    /\ srv.done =>
         \E order \in MapOrders :
           LET cleaned == CleanName(raw, order)
           IN  Len(cleaned) > 63 =>
                 /\ srv.out = Truncated(cleaned)
                 /\ Len(srv.out) <= 63
                 /\ Len(Split(cleaned, "-")) >= 33 <=> srv.out = << cleaned[1], "-", cleaned[Len(cleaned)] >>
    /\ cli.done =>
         LET cleaned == JsCleanName(raw)
         IN  Len(cleaned) > 63 =>
               /\ cli.out = Truncated(cleaned)
               /\ Len(cli.out) <= 63

\* A name of two uneven parts, 70 characters long, has been cut to 31
\* characters for the first part and the whole second part.
C19_Witness ==
  /\ srv.done
  /\ Len(raw) > 63
  /\ Len(Split(raw, "-")) = 2
  /\ srv.out = Repeat("a", 31) \o << "-", "b" >>

\* C26: the result of the literal-replacement step does not depend on the
\* order in which the twelve replacements are applied. Every key of the table
\* is one character, the keys are distinct and no replacement text holds a
\* key, so any two entries commute on every string; on a short identifier at
\* hand any two entries commute, on every identifier every iteration order
\* gives the same replaced string, and the canonical name returned is the one
\* of every other order.
C26_ReplacementOrderIndependent ==
  LET key(i)      == Replacements[i][1]
      text(i)     == Replacements[i][2]
      entry(s, i) == ReplaceAll(s, key(i), text(i))
      entries     == 1..NumReplacements
  IN  /\ NumReplacements = 12
      /\ \A i, j \in entries :
           /\ (i # j) => key(i) # key(j)
           /\ \A k \in 1..Len(text(i)) : text(i)[k] # key(j)
      /\ Len(raw) <= MaxLen =>
           \A i, j \in entries : (i < j) => entry(entry(raw, i), j) = entry(entry(raw, j), i)
      /\ \A order \in MapOrders \ { SourceOrder } :
           ApplyReplacements(raw, order) = ApplyReplacements(raw, SourceOrder)
      /\ srv.done => \A order \in MapOrders : MakeDNSFriendly(raw, order) = srv.out

\* MakeDNSFriendly has returned for an identifier that holds two keys of the
\* table, a space and an "@".
C26_Witness ==
  /\ raw = << "a", " ", "@" >>
  /\ srv.done
  /\ srv.out = << "a", "-", "a", "t" >>

\* A DNS label in canonical form: 1 to 63 characters of a-z, 0-9 and the
\* hyphen, an alphanumeric first and last, no two hyphens in a row.
CanonicalLabel(name) ==
  /\ Len(name) \in 1..63
  /\ \A i \in 1..Len(name) : name[i] \in Lower \cup Digit \cup { "-" }
  /\ name[1] # "-"
  /\ name[Len(name)] # "-"
  /\ \A i \in 1..(Len(name) - 1) : ~(name[i] = "-" /\ name[i + 1] = "-")

\* C27: every canonical label is returned unchanged by both canonicalizers:
\* the backend stores such a context under its own name and the client, which
\* shows the preview when the name differs from makeDNSFriendly(name), shows
\* none for it.
C27_CanonicalLabelUnchanged ==
  CanonicalLabel(raw) =>
    /\ srv.done => srv.out = raw
    /\ cli.done => (cli.out = raw /\ ~(raw # makeDNSFriendly(raw)))

\* Both canonicalizers have returned a canonical label of 63 characters,
\* hyphens included, as it was given.
C27_Witness ==
  /\ CanonicalLabel(raw)
  /\ Len(raw) = 63
  /\ Count(raw, "-") >= 1
  /\ srv.done /\ srv.out = raw
  /\ cli.done /\ cli.out = raw

\* ------------------------------------------------------------------------
\* Concurrent callers of the store
\* ------------------------------------------------------------------------
\* Two request handlers, each in one AddContext call on a context of its own
\* (the context of writer w has id w), and one handler calling GetContext.
Writers == 1..2

MaxReads == 2

\* The context a store may hold before the two calls start.
PreviousContext == Held(<< "a", "-", "b" >>, 3)

\* A writer before line 41, after line 65 (ctx.Name assigned), and returned.
WriterAt(pc, ctx, name, err) == [pc |-> pc, ctx |-> ctx, name |-> name, err |-> err]

ReaderAt(reads, seen) == [reads |-> reads, seen |-> seen]

NothingSeen == [name |-> << >>, err |-> "none", value |-> NoCtx]

\* AddContextStore publishing the context with its name as supplied.
AddContextStore_NameAsSupplied(st, ctx, name) ==
  CacheSet(st, name, Held(ctx.Name, ctx.id))

\* Line 67 of AddContext: the one access of the call to the shared cache;
\* name is ctx.Name as line 65 assigned it.
AddContextStore(st, ctx, name) == CacheSet(st, name, Held(name, ctx.id))

\* Lines 41-65 of AddContext: local to the call and its own context.
AddContextAssign(w) ==
  /\ procs[w].pc = "start"
  /\ IF procs[w].ctx.ext.kind = "bad"
     THEN procs' = [procs EXCEPT ![w] = WriterAt("done", @.ctx, @.name, "decode")]
     ELSE \E friendlyName \in friendly[EffectiveName(procs[w].ctx)] :
            procs' = [procs EXCEPT ![w] = WriterAt("assigned", @.ctx, friendlyName, "nil")]
  /\ UNCHANGED << storeVars, canonVars, registry, wizard >>

\* Line 67 of AddContext: cache.Set, atomic on its key.
AddContextSet(w) ==
  /\ procs[w].pc = "assigned"
  /\ store' = AddContextStore(store, procs[w].ctx, procs[w].name)
  /\ procs' = [procs EXCEPT ![w] = WriterAt("done", @.ctx, @.name, "nil")]
  /\ UNCHANGED << now, last, friendly, canonVars, registry, wizard >>

\* A GetContext call of another handler, between any two steps of the writers.
ConcurrentGetContext(name) ==
  /\ procs[0].reads < MaxReads
  /\ LET r == GetContextCall(store, now, name)
     IN  /\ store' = r.store
         /\ procs' = [procs EXCEPT ![0] =
                        ReaderAt(@.reads + 1, [name |-> name, err |-> r.err, value |-> r.value])]
  /\ UNCHANGED << now, last, friendly, canonVars, registry, wizard >>

\* The store as NewContextStore or one earlier AddContext left it, and two
\* AddContext calls about to start.
InitConc ==
  /\ raw = << >>
  /\ srv = NotRun
  /\ cli = NotRun
  /\ again = NotRun
  /\ store \in { EmptyCache,
                  CacheSet(EmptyCache, PreviousContext.Name, PreviousContext) }
  /\ now = 0
  /\ last = Call("NewContextStore", "nil", << >>, << >>, 0, EmptyCache, 0)
  /\ friendly = FriendlyNames
  /\ \E c \in [Writers -> Contexts] :
       /\ \A w \in Writers : c[w].id = w
       /\ procs = [p \in Writers \cup { 0 } |->
                     IF p = 0 THEN ReaderAt(0, NothingSeen)
                     ELSE WriterAt("start", c[p], c[p].Name, "nil")]
  /\ registry = << >>
  /\ wizard = << >>

NextConc ==
  \/ \E w \in Writers : AddContextAssign(w)
  \/ \E w \in Writers : AddContextSet(w)
  \/ \E name \in StoreKeys : ConcurrentGetContext(name)

SpecConc == InitConc /\ [][NextConc]_vars

\* The writers whose call canonicalizes its effective name to name n.
WritersOf(n) ==
  { w \in Writers : /\ procs[w].ctx.ext.kind # "bad"
                    /\ friendly[EffectiveName(procs[w].ctx)] = { n } }

\* C13: when two AddContext calls whose effective names canonicalize to the
\* same name run concurrently, every interleaving ends with exactly one entry
\* under that name, wholly the context of one of the two calls; a concurrent
\* GetContext of that name returns NotFound, the previous entry or one of the
\* two contexts, never a mix.
C13_ConcurrentAddContext ==
  \A n \in StoreKeys : WritersOf(n) = Writers =>
    LET theirs  == { Held(n, w) : w \in Writers }
        entries == { k \in DOMAIN store : store[k].value.Name = n }
    IN  /\ (\A w \in Writers : procs[w].pc = "done") =>
             /\ entries = { n }
             /\ store[n].value \in theirs
             /\ \A w \in Writers : procs[w].err = "nil" /\ procs[w].name = n
        /\ n \in DOMAIN store => store[n].value \in theirs \cup { PreviousContext }
        /\ procs[0].seen.name = n =>
             \/ procs[0].seen.err = "ErrNotFound"
             \/ /\ procs[0].seen.err = "nil"
                /\ procs[0].seen.value \in theirs \cup { PreviousContext }

\* Both calls have returned, the entry is the context of the first writer
\* (the second wrote first), and the concurrent GetContext saw the context of
\* the second writer in between.
C13_Witness ==
  /\ WritersOf(<< "a", "-", "b" >>) = Writers
  /\ \A w \in Writers : procs[w].pc = "done"
  /\ store[<< "a", "-", "b" >>].value = Held(<< "a", "-", "b" >>, 1)
  /\ procs[0].seen.name = << "a", "-", "b" >>
  /\ procs[0].seen.value = Held(<< "a", "-", "b" >>, 2)

\* ------------------------------------------------------------------------
\* StatelessClusterRegistry (frontend, stateless/index): kubeconfig blobs in
\* a durable object store with auto-increment keys
\* ------------------------------------------------------------------------
MaxRecords == 2

\* Two documents for one cluster: the kubeconfig and its replacement.
Tokens == { 1, 2 }

\* No headlamp_info extension on the context (an extension without a
\* customName reads the same).
NoCustomName == ""

\* A kubeconfig blob: the base64 text of a kubeconfig with one context named
\* cluster and no headlamp_info extension; token stands for the rest of the
\* document.
Kubeconfig(cluster, token) ==
  [cluster |-> cluster, token |-> token, customName |-> NoCustomName]

\* The blob of the kubeconfig with the customName of the headlamp_info
\* extension of its context set: decoded, changed and encoded again.
WithCustomName(blob, customName) == [blob EXCEPT !.customName = customName]

ClusterNames == { "test-cluster", "second-cluster", "new-cluster" }

Blobs ==
  { Kubeconfig(c, t) : c \in ClusterNames, t \in Tokens }
  \cup { WithCustomName(Kubeconfig("test-cluster", 1), "old-name") }

NoBlob == Kubeconfig("", 0)

NoContextFound == "No context found matching the cluster name"

\* The decoded kubeconfig of the blob has a context for clusterName.
MatchesCluster(blob, clusterName) == blob.cluster = clusterName

\* The key of the first record, in cursor order, whose kubeconfig matches
\* clusterName; 0 when the cursor runs out.
FindRecord(reg, clusterName) ==
  LET found == { i \in 1..Len(reg) : MatchesCluster(reg[i], clusterName) }
  IN  IF found = {} THEN 0 ELSE CHOOSE i \in found : \A j \in found : i <= j

\* getStatelessClusterKubeConfigs: every stored blob, by key.
getStatelessClusterKubeConfigsCall(reg) == reg

\* storeStatelessClusterKubeconfigCall writing over the record of the same
\* cluster when there is one.
storeStatelessClusterKubeconfigCall_PutsByCluster(reg, blob) ==
  IF \E i \in 1..Len(reg) : reg[i].cluster = blob.cluster
  THEN [i \in 1..Len(reg) |-> IF reg[i].cluster = blob.cluster THEN blob ELSE reg[i]]
  ELSE Append(reg, blob)

\* storeStatelessClusterKubeconfig: add(blob) under a new key.
storeStatelessClusterKubeconfigCall(reg, blob) == Append(reg, blob)

\* findAndReplaceKubeconfigCall that rejects whenever nothing matches.
findAndReplaceKubeconfigCall_IgnoresCreate(reg, clusterName, newBlob, create) ==
  IF FindRecord(reg, clusterName) # 0
  THEN [err |-> "nil", at |-> FindRecord(reg, clusterName),
        registry |-> [reg EXCEPT ![FindRecord(reg, clusterName)] = newBlob]]
  ELSE [err |-> NoContextFound, at |-> 0, registry |-> reg]

\* findAndReplaceKubeconfigCall adding a record where it should overwrite one.
findAndReplaceKubeconfigCall_Appends(reg, clusterName, newBlob, create) ==
  IF FindRecord(reg, clusterName) # 0 \/ create
  THEN [err |-> "nil", at |-> FindRecord(reg, clusterName), registry |-> Append(reg, newBlob)]
  ELSE [err |-> NoContextFound, at |-> 0, registry |-> reg]

\* findAndReplaceKubeconfig: the error (nil: resolved), the key overwritten
\* (0: none) and the records after the call.
findAndReplaceKubeconfigCall(reg, clusterName, newBlob, create) ==
  LET at == FindRecord(reg, clusterName)
  IN  IF at # 0
      THEN [err |-> "nil", at |-> at, registry |-> [reg EXCEPT ![at] = newBlob]]
      ELSE IF create
      THEN [err |-> "nil", at |-> 0,
            registry |-> storeStatelessClusterKubeconfigCall(reg, newBlob)]
      ELSE [err |-> NoContextFound, at |-> 0, registry |-> reg]

\* updateStatelessClusterKubeconfigCall leaving a customName that is already
\* set as it is.
updateStatelessClusterKubeconfigCall_KeepsOldName(reg, blob, newCustomName, clusterName) ==
  LET at == FindRecord(reg, clusterName)
  IN  IF at # 0
      THEN [err |-> "nil", at |-> at,
            registry |-> IF reg[at].customName = NoCustomName
                         THEN [reg EXCEPT ![at] = WithCustomName(reg[at], newCustomName)]
                         ELSE reg]
      ELSE [err |-> NoContextFound, at |-> 0, registry |-> reg]

\* updateStatelessClusterKubeconfigCall adding the changed kubeconfig as a new
\* record.
updateStatelessClusterKubeconfigCall_Inserts(reg, blob, newCustomName, clusterName) ==
  LET at == FindRecord(reg, clusterName)
  IN  IF at # 0
      THEN [err |-> "nil", at |-> at,
            registry |-> Append(reg, WithCustomName(reg[at], newCustomName))]
      ELSE [err |-> NoContextFound, at |-> 0, registry |-> reg]

\* updateStatelessClusterKubeconfig: the record matching clusterName is
\* located, the customName set in its kubeconfig, and the result put under
\* the key of that record. blob is the kubeconfig as the caller holds it.
updateStatelessClusterKubeconfigCall(reg, blob, newCustomName, clusterName) ==
  LET at == FindRecord(reg, clusterName)
  IN  IF at # 0
      THEN [err |-> "nil", at |-> at,
            registry |-> [reg EXCEPT ![at] = WithCustomName(reg[at], newCustomName)]]
      ELSE [err |-> NoContextFound, at |-> 0, registry |-> reg]

\* What the caller of the latest registry call saw: the function, the error,
\* the cluster name and blob passed, the key overwritten, and how many
\* records there were when the call was made.
RegistryCall(op, err, clusterName, blob, at, reg) ==
  [op |-> op, err |-> err, name |-> clusterName, blob |-> blob, at |-> at,
   n |-> Len(reg)]

storeStatelessClusterKubeconfig(blob) ==
  /\ Len(registry) < MaxRecords
  /\ registry' = storeStatelessClusterKubeconfigCall(registry, blob)
  /\ last' = RegistryCall("storeStatelessClusterKubeconfig", "nil", blob.cluster,
                           blob, 0, registry)
  /\ UNCHANGED << store, now, friendly, procs, canonVars, wizard >>

getStatelessClusterKubeConfigs ==
  /\ last' = RegistryCall("getStatelessClusterKubeConfigs", "nil", "", NoBlob, 0, registry)
  /\ UNCHANGED << store, now, friendly, procs, registry, canonVars, wizard >>

findAndReplaceKubeconfig(clusterName, newBlob, create) ==
  LET r == findAndReplaceKubeconfigCall(registry, clusterName, newBlob, create)
  IN  /\ Len(r.registry) <= MaxRecords
      /\ registry' = r.registry
      /\ last' = RegistryCall("findAndReplaceKubeconfig", r.err, clusterName,
                               newBlob, r.at, registry)
      /\ UNCHANGED << store, now, friendly, procs, canonVars, wizard >>

updateStatelessClusterKubeconfig(blob, newCustomName, clusterName) ==
  LET r == updateStatelessClusterKubeconfigCall(registry, blob, newCustomName, clusterName)
  IN  /\ registry' = r.registry
      /\ last' = RegistryCall("updateStatelessClusterKubeconfig", r.err, clusterName,
                               blob, r.at, registry)
      /\ UNCHANGED << store, now, friendly, procs, canonVars, wizard >>

\* An empty object store.
InitRegistry ==
  /\ raw = << >>
  /\ srv = NotRun
  /\ cli = NotRun
  /\ again = NotRun
  /\ store = EmptyCache
  /\ now = 0
  /\ friendly = << >>
  /\ procs = << >>
  /\ registry = << >>
  /\ wizard = << >>
  /\ last = RegistryCall("open", "nil", "", NoBlob, 0, << >>)

NextRegistry ==
  \/ \E blob \in Blobs : storeStatelessClusterKubeconfig(blob)
  \/ getStatelessClusterKubeConfigs
  \/ \E clusterName \in ClusterNames, newBlob \in Blobs, create \in BOOLEAN :
        findAndReplaceKubeconfig(clusterName, newBlob, create)
  \/ \E clusterName \in ClusterNames :
        updateStatelessClusterKubeconfig(Kubeconfig(clusterName, 1), "new-name", clusterName)

SpecRegistry == InitRegistry /\ [][NextRegistry]_vars

\* C20: findAndReplaceKubeconfig(clusterName, newBlob) on a registry that
\* holds a record whose context matches clusterName overwrites the blob of
\* that record in place: the number of records is unchanged, the record no
\* longer holds its old blob but newBlob, and the blob of every other record
\* is identical to before.
C20_FindAndReplaceOverwritesInPlace ==
  \A clusterName \in ClusterNames : \A newBlob \in Blobs : \A create \in BOOLEAN :
    (\E i \in 1..Len(registry) : MatchesCluster(registry[i], clusterName)) =>
      LET r      == findAndReplaceKubeconfigCall(registry, clusterName, newBlob, create)
          before == getStatelessClusterKubeConfigsCall(registry)
          after  == getStatelessClusterKubeConfigsCall(r.registry)
      IN  /\ r.err = "nil"
          /\ Len(after) = Len(before)
          /\ \E i \in 1..Len(before) :
               /\ MatchesCluster(before[i], clusterName)
               /\ after[i] = newBlob
               /\ \A j \in (1..Len(before)) \ { i } : after[j] = before[j]

\* Two kubeconfigs of distinct clusters were stored and the first has been
\* replaced by a new blob; the other is as it was.
C20_Witness ==
  /\ last.op = "findAndReplaceKubeconfig"
  /\ last.err = "nil"
  /\ last.name = "test-cluster"
  /\ last.at = 1
  /\ last.n = 2
  /\ registry = << Kubeconfig("test-cluster", 2), Kubeconfig("second-cluster", 1) >>
  /\ last.blob = registry[1]

\* C21: findAndReplaceKubeconfig for a cluster name that no stored record
\* matches: with create=false it rejects with exactly "No context found
\* matching the cluster name" and leaves the registry unchanged; with
\* create=true it resolves and the registry grows by exactly one record
\* holding newBlob, all earlier records unchanged.
C21_FindAndReplaceNotFound ==
  \A clusterName \in ClusterNames : \A newBlob \in Blobs :
    (\A i \in 1..Len(registry) : registry[i].cluster # clusterName) =>
      LET rejected == findAndReplaceKubeconfigCall(registry, clusterName, newBlob, FALSE)
          created  == findAndReplaceKubeconfigCall(registry, clusterName, newBlob, TRUE)
          after    == getStatelessClusterKubeConfigsCall(created.registry)
      IN  /\ rejected.err = "No context found matching the cluster name"
          /\ rejected.registry = registry
          /\ created.err = "nil"
          /\ Len(after) = Len(registry) + 1
          /\ after[Len(after)] = newBlob
          /\ \A i \in 1..Len(registry) : after[i] = registry[i]

\* findAndReplaceKubeconfig with create=true has added the kubeconfig of a
\* cluster that had no record to a registry holding another one.
C21_Witness ==
  /\ last.op = "findAndReplaceKubeconfig"
  /\ last.err = "nil"
  /\ last.at = 0
  /\ last.name = "new-cluster"
  /\ last.n = 1
  /\ Len(registry) = 2
  /\ registry[1].cluster = "test-cluster"
  /\ registry[2] = last.blob

\* How many records hold a kubeconfig for the cluster name.
RecordsOf(reg, clusterName) ==
  Cardinality({ i \in 1..Len(reg) : reg[i].cluster = clusterName })

C23_StoreAddsOneRecord ==
  /\ \A blob \in Blobs :
       LET before == getStatelessClusterKubeConfigsCall(registry)
           after  == getStatelessClusterKubeConfigsCall(
                       storeStatelessClusterKubeconfigCall(registry, blob))
       IN  /\ Len(after) = Len(before) + 1
           /\ \E i \in 1..Len(after) : after[i] = blob
           /\ \A b \in Blobs :
                Cardinality({ i \in 1..Len(after) : after[i] = b })
                  = Cardinality({ i \in 1..Len(before) : before[i] = b })
                    + (IF b = blob THEN 1 ELSE 0)
  /\ Len(getStatelessClusterKubeConfigsCall(registry)) = Len(registry)
  /\ \A clusterName \in ClusterNames : \A newBlob \in Blobs : \A create \in BOOLEAN :
       /\ Len(findAndReplaceKubeconfigCall(registry, clusterName, newBlob, create).registry)
            >= Len(registry)
       /\ Len(updateStatelessClusterKubeconfigCall(registry, newBlob, "new-name",
                                                   clusterName).registry)
            >= Len(registry)

\* A kubeconfig was stored for a cluster that already had a record: there
\* is one record more, and the earlier one is still there.
C23_Witness ==
  /\ last.op = "storeStatelessClusterKubeconfig"
  /\ last.n = 1
  /\ Len(registry) = 2
  /\ registry[2] = last.blob
  /\ registry[1].cluster = last.blob.cluster
  /\ registry[1] # registry[2]

RegistryCalls ==
  { [op |-> "updateStatelessClusterKubeconfig", name |-> n, blob |-> NoBlob,
     customName |-> "new-name"] : n \in { "test-cluster", "new-cluster" } }
  \cup
  { [op |-> "findAndReplaceKubeconfig", name |-> "test-cluster", blob |-> b,
     customName |-> NoCustomName] :
       b \in { Kubeconfig("test-cluster", 2), Kubeconfig("second-cluster", 2) } }

\* A caller before its scan, between scan and put (the key and the blob it
\* read), resolved, or rejected.
CallerAt(pc, call, at, snapshot) ==
  [pc |-> pc, call |-> call, at |-> at, snapshot |-> snapshot]

\* BlobToPut writing back the blob as it was read.
BlobToPut_Unchanged(call, snapshot) ==
  IF call.op = "findAndReplaceKubeconfig" THEN call.blob ELSE snapshot

\* What the write phase puts under the key found: the new blob, or the blob
\* read by the scan with the customName set.
BlobToPut(call, snapshot) ==
  IF call.op = "findAndReplaceKubeconfig" THEN call.blob
  ELSE WithCustomName(snapshot, call.customName)

\* Read phase: the cursor scan. It notes whether the other caller is between
\* its own scan and put.
CursorScan(p) ==
  /\ procs[p].pc = "start"
  /\ LET at == FindRecord(registry, procs[p].call.name)
     IN  procs' = [procs EXCEPT
           ![p] = IF at = 0 THEN CallerAt("rejected", @.call, 0, NoBlob)
                  ELSE CallerAt("found", @.call, at, registry[at]),
           ![0] = [@ EXCEPT !.overlapped =
                     @ \/ \E q \in { 1, 2 } \ { p } : procs[q].pc = "found"]]
  /\ UNCHANGED << registry, storeVars, canonVars, wizard >>

\* Write phase: put under the key the scan found.
PutRecord(p) ==
  /\ procs[p].pc = "found"
  /\ registry' = [registry EXCEPT ![procs[p].at] = BlobToPut(procs[p].call, procs[p].snapshot)]
  /\ procs' = [procs EXCEPT ![p] = CallerAt("resolved", @.call, @.at, @.snapshot)]
  /\ UNCHANGED << storeVars, canonVars, wizard >>

\* A registry as two store calls left it, and two calls about to start.
InitRegistryConc ==
  /\ raw = << >>
  /\ srv = NotRun
  /\ cli = NotRun
  /\ again = NotRun
  /\ store = EmptyCache
  /\ now = 0
  /\ friendly = << >>
  /\ wizard = << >>
  /\ last = RegistryCall("open", "nil", "", NoBlob, 0, << >>)
  /\ registry \in { << Kubeconfig("test-cluster", 1), Kubeconfig("second-cluster", 1) >>,
                     << Kubeconfig("second-cluster", 1),
                        WithCustomName(Kubeconfig("test-cluster", 1), "old-name") >> }
  /\ \E c1 \in RegistryCalls, c2 \in RegistryCalls :
       procs = [p \in 0..2 |->
                  IF p = 0 THEN [initial |-> registry, overlapped |-> FALSE]
                  ELSE CallerAt("start", IF p = 1 THEN c1 ELSE c2, 0, NoBlob)]

NextRegistryConc ==
  \/ \E p \in { 1, 2 } : CursorScan(p)
  \/ \E p \in { 1, 2 } : PutRecord(p)

SpecRegistryConc == InitRegistryConc /\ [][NextRegistryConc]_vars

\* The registry after the call has run alone on reg.
SerialRun(reg, call) ==
  IF call.op = "findAndReplaceKubeconfig"
  THEN findAndReplaceKubeconfigCall(reg, call.name, call.blob, FALSE).registry
  ELSE updateStatelessClusterKubeconfigCall(reg, call.blob, call.customName, call.name).registry

\* The registries the two calls can leave when one runs after the other.
SerialOutcomes ==
  { SerialRun(SerialRun(procs[0].initial, procs[1].call), procs[2].call),
    SerialRun(SerialRun(procs[0].initial, procs[2].call), procs[1].call) }

validateContextName(name) ==
  IF name = << >>
  THEN [isValid |-> FALSE, message |-> "Context name cannot be empty"]
  ELSE IF HasPrefix(name, GkePrefix) /\ Len(Split(name, "_")) >= 4 /\ GkeRegexMatch(name)
  THEN [isValid |-> TRUE, message |-> ""]
  ELSE LET friendlyName == makeDNSFriendly(name)
       IN  IF Len(friendlyName) > MAX_DNS_LABEL_LENGTH
           THEN [isValid |-> FALSE,
                 message |-> "Context name must be 63 characters or less"]
           ELSE IF ~validDNSLabel(friendlyName)
           THEN [isValid |-> FALSE,
                 message |-> "Context name must contain only lowercase letters, numbers, and hyphens, and must start and end with a letter or number"]
           ELSE [isValid |-> TRUE, message |-> ""]

\* The context names of the kubeconfig documents dropped on the wizard.
WizardNames ==
  { << >>, << "a" >>, << "a", " ", "b" >>, << "a", "-", "b" >>, << "d", "e", "v" >> }

\* A parsed document: whether it has a contexts key, and the names of its
\* contexts. Every context names a cluster of the document.
KubeconfigDocs ==
  { [hasContexts |-> TRUE, contexts |-> names] : names \in SUBSET WizardNames }
  \cup { [hasContexts |-> FALSE, contexts |-> {}] }

\* useClustersConf(): the clusters already configured, by the name the
\* backend stores them under.
ConfiguredClusters == { {}, { << "a", "-", "b" >> } }

\* The contexts of the document sent to the backend: the selected names that
\* the document holds.
configWithSelectedClusters(config, selectedClusters) ==
  { clusterName \in selectedClusters : clusterName \in config }

\* The component after mount: the first step, nothing loaded or selected.
InitWizard ==
  /\ raw = << >>
  /\ srv = NotRun
  /\ cli = NotRun
  /\ again = NotRun
  /\ store = EmptyCache
  /\ now = 0
  /\ last = Call("NewContextStore", "nil", << >>, << >>, 0, EmptyCache, 0)
  /\ friendly = << >>
  /\ procs = << >>
  /\ registry = << >>
  /\ \E configured \in ConfiguredClusters :
       wizard = [state              |-> "LoadKubeConfig",
                 error              |-> "",
                 fileContent        |-> {},
                 selectedClusters   |-> {},
                 contextNameErrors  |-> << >>,
                 configuredClusters |-> configured,
                 kubeconfig         |-> {},
                 pending            |-> FALSE]

\* onDrop and the effect on fileContent: a document without a contexts key is
\* refused; a document with contexts selects every one of them and moves on
\* to the selection step.
onDrop(doc) ==
  /\ wizard.state = "LoadKubeConfig"
  /\ wizard' =
       IF ~doc.hasContexts
       THEN [wizard EXCEPT !.error = "Invalid kubeconfig file: No contexts found!"]
       ELSE IF doc.contexts # {}
       THEN [wizard EXCEPT !.error = "",
                           !.fileContent = doc.contexts,
                           !.selectedClusters = doc.contexts,
                           !.state = "SelectClusters"]
       ELSE [wizard EXCEPT !.error = "", !.fileContent = doc.contexts]
  /\ UNCHANGED << canonVars, storeVars, procs, registry >>

\* handleContextSelect: the checkbox of contextName is clicked; checked is the
\* value the click gives the box, the opposite of what it shows.
handleContextSelect(contextName) ==
  /\ wizard.state = "SelectClusters"
  /\ contextName \in wizard.fileContent
  /\ LET validation == validateContextName(contextName)
         checked    == contextName \notin wizard.selectedClusters
         prev       == wizard.contextNameErrors
     IN  wizard' =
           IF ~validation.isValid
           THEN [wizard EXCEPT !.contextNameErrors =
                   [n \in (DOMAIN prev) \cup { contextName } |->
                      IF n = contextName THEN validation.message ELSE prev[n]]]
           ELSE [wizard EXCEPT
                   !.contextNameErrors = [n \in (DOMAIN prev) \ { contextName } |-> prev[n]],
                   !.selectedClusters =
                      IF checked THEN wizard.selectedClusters \cup { contextName }
                      ELSE wizard.selectedClusters \ { contextName }]
  /\ UNCHANGED << canonVars, storeVars, procs, registry >>

\* The Next button of the selection step, disabled while nothing is selected.
ClickNext ==
  /\ wizard.state = "SelectClusters"
  /\ wizard.selectedClusters # {}
  /\ wizard' = [wizard EXCEPT !.state = "ValidateKubeConfig"]
  /\ UNCHANGED << canonVars, storeVars, procs, registry >>

\* The Back button of the selection step.
ClickBack ==
  /\ wizard.state = "SelectClusters"
  /\ wizard' = [wizard EXCEPT !.error = "", !.state = "LoadKubeConfig"]
  /\ UNCHANGED << canonVars, storeVars, procs, registry >>

\* The effect on state in the ValidateKubeConfig step: the selected names
\* that are keys of the configured clusters are duplicates.
ValidateKubeConfig ==
  /\ wizard.state = "ValidateKubeConfig"
  /\ LET alreadyConfiguredClusters ==
           { clusterName \in wizard.selectedClusters :
               clusterName \in wizard.configuredClusters }
     IN  wizard' =
           IF alreadyConfiguredClusters # {}
           THEN [wizard EXCEPT !.error = "Duplicate cluster", !.state = "SelectClusters"]
           ELSE [wizard EXCEPT !.state = "ConfigureClusters"]
  /\ UNCHANGED << canonVars, storeVars, procs, registry >>

\* The effect on state in the ConfigureClusters step: the selected contexts
\* are sent to the backend.
loadClusters ==
  /\ wizard.state = "ConfigureClusters"
  /\ ~wizard.pending
  /\ wizard' = [wizard EXCEPT
                  !.kubeconfig = configWithSelectedClusters(wizard.fileContent,
                                                            wizard.selectedClusters),
                  !.pending = TRUE]
  /\ UNCHANGED << canonVars, storeVars, procs, registry >>

\* setCluster settles: resolved, the clusters the backend stored join the
\* configured ones, each under its canonical name; rejected, the wizard
\* returns to the selection step with an error.
setClusterSettled(resolved) ==
  /\ wizard.state = "ConfigureClusters"
  /\ wizard.pending
  /\ wizard' =
       IF resolved
       THEN [wizard EXCEPT
               !.configuredClusters =
                  wizard.configuredClusters
                  \cup { MakeDNSFriendly(n, SourceOrder) : n \in wizard.kubeconfig },
               !.pending = FALSE,
               !.state = "Success"]
       ELSE [wizard EXCEPT !.error = "Error setting up clusters",
                           !.pending = FALSE,
                           !.state = "SelectClusters"]
  /\ UNCHANGED << canonVars, storeVars, procs, registry >>

NextWizard ==
  \/ \E doc \in KubeconfigDocs : onDrop(doc)
  \/ \E contextName \in WizardNames : handleContextSelect(contextName)
  \/ ClickNext
  \/ ClickBack
  \/ ValidateKubeConfig
  \/ loadClusters
  \/ \E resolved \in BOOLEAN : setClusterSettled(resolved)

SpecWizard == InitWizard /\ [][NextWizard]_vars

\* ------------------------------------------------------------------------
\* Claims about the wizard (checked under SpecWizard)
\* ------------------------------------------------------------------------
\* C28: validateContextName reports isValid=false only for the empty name:
\* the only name the checkbox handler records an error for is the empty one,
\* and the error about 63 characters is never recorded.
C28_OnlyEmptyNameInvalid ==
  /\ \A n \in DOMAIN wizard.contextNameErrors : n = << >>
  /\ \A n \in DOMAIN wizard.contextNameErrors :
       wizard.contextNameErrors[n] # "Context name must be 63 characters or less"

\* C29: every name selected when the ConfigureClusters step sends the
\* kubeconfig passes validateContextName, and a click on the checkbox of a
\* selected context deselects it.
C29_OnlyValidNamesSubmitted ==
  [][ /\ wizard'.state = "ConfigureClusters" =>
           \A n \in wizard'.selectedClusters : validateContextName(n).isValid
      /\ \A n \in wizard.selectedClusters :
           handleContextSelect(n) => n \notin wizard'.selectedClusters ]_vars

\* C30: the wizard reaches ConfigureClusters only if no selected context
\* would be stored under the name of a configured cluster: the canonical name
\* of no selected context is a configured cluster name.
C30_NoSubmittedNameConfigured ==
  wizard.state = "ConfigureClusters" =>
    \A n \in wizard.selectedClusters :
      makeDNSFriendly(n) \notin wizard.configuredClusters

====
